---- MODULE Spec2Model ----
(***************************************************************************)
(* A model of vpn_monitor.py: the scheduler loop (run_tests), one          *)
(* connection attempt (_test_vpn_connection) with the daemon controller    *)
(* operations it calls (_stop_all_vpn_connections,                         *)
(* _start_strongswan_daemon, _load_ipsec_config) and the host state these  *)
(* operations act on (daemon processes, control/PID files); around these,  *)
(* main: the construction of the monitor from its environment              *)
(* (_parse_vpn_servers, _validate_config), the health check, the signal    *)
(* handler and the exit status of the process.                             *)
(*                                                                         *)
(* Every external command is an input of the model: its exit code, a       *)
(* subprocess timeout (an exception in Python) and its output text are     *)
(* drawn with \E from small sets.  A command that inspects the host        *)
(* (pgrep) answers from the modelled host state; a daemon may die between  *)
(* two observations.                                                       *)
(***************************************************************************)
EXTENDS Naturals, Sequences, FiniteSets, TLC

\* Number of well-formed entries of VPN_SERVERS in the runs of the monitor.
NumServers == 2

\* Largest number of entries of the VPN_SERVERS strings given to the parser
\* on its own.
MaxEntries == 3

\* Number of record operations run one after the other
MaxRecords == 3

\* Number of phrases in a text given to the analysis on its own
MaxPhrases == 2

\* self.vpn_timeout when VPN_TIMEOUT is unset.
DefaultVpnTimeout == 30

\* time.sleep(3) between bring-up and the status query.
SettleDelay == 3

VARIABLES
    pc,             \* position of the single thread of control
    argv,           \* sys.argv[1] ("none": no argument)
    db_config,      \* the database settings that are set in the environment
    entries,        \* the entries VPN_SERVERS was written from
    servers_str,    \* os.getenv('VPN_SERVERS', '')
    vpn_servers,    \* self.vpn_servers
    exitCode,       \* exit status of the process ("none": still running)
    signal,         \* a stop signal whose handler has run
    events,         \* attempts begun, outcomes returned, record calls made
    summary,        \* the entries _display_summary has listed
    health,         \* what the steps of health_check did
    dbLog,          \* how the calls of _log_result run on its own ended
    loadLog,        \* the commands of the running _load_ipsec_config
    idx,            \* index of the server run_tests is at
    results,        \* run_tests' results list
    db,             \* committed rows: test results and heartbeat count
    vpn_timeout,    \* self.vpn_timeout
    procs,          \* daemon processes running on the host
    files,          \* control/PID files existing on the host
    conf,           \* the configuration files on disk: values and mode
    launched,       \* daemons launched by the current attempt
    tcpdump,        \* the packet-capture helper of the current attempt
    outcome,        \* the triple the attempt returns (latency left out)
    nOutcomes,      \* number of return statements executed by the attempt
    connection_time,\* the latency of the triple, in ms (0: not sampled)
    elapsed,        \* time since start_time was taken: one unit for each
                    \* step of the attempt that has run
    raised,         \* the helpers of the attempt inside which an exception
                    \* was raised
    pingRes,        \* what the ping of the current attempt did
    stopLog,        \* the stopAll calls of the current attempt, in order
    wrote,          \* configuration was materialized in this attempt
    startResult,    \* what _start_strongswan_daemon returned
    loadResult,     \* what _load_ipsec_config returned
    loadCalls,      \* number of calls of _load_ipsec_config in this attempt
    upIssued,       \* 'ipsec up' was issued in this attempt
    upName,         \* the connection name it was issued for
    up_output,      \* stdout of 'ipsec up'
    status_output,  \* status text used by the classification
    statusQueries,  \* number of 'ipsec statusall' queries after bring-up
    statusRc,       \* how the last of these queries ended
    waited,         \* seconds slept between bring-up and the last query
    launches,       \* launch strategies used by daemon start, in order
    launchCtx,      \* for each launch: the probe state it was made in
    probe,          \* liveness checks made since the last launch
    lastStop,       \* what the last stopAll call found and did
    sinceStop       \* daemon-affecting operations since the last stopAll

vars == <<pc, argv, db_config, entries, servers_str, vpn_servers, exitCode,
          signal, events, summary, health, dbLog, idx, results, db, vpn_timeout, procs, files, conf, launched,
          tcpdump, outcome, nOutcomes, connection_time, elapsed, raised, pingRes, stopLog, wrote, startResult,
          loadResult, loadCalls, loadLog, upIssued, upName, up_output, status_output,
          statusQueries, statusRc, waited, launches, launchCtx, probe, lastStop,
          sinceStop>>

----------------------------------------------------------------------------
(* Host state *)

\* subprocess.run(['ipsec', 'down', 'vpntest'], ...) of stopAll
DownConnection == "vpntest"

\* up_cmd = ['ipsec', 'up', 'windows11_exact'] of the attempt
UpConnection == "windows11_exact"

\* 'conn windows11_exact' of the text written to /etc/ipsec.conf
DefinedConnection == "windows11_exact"

\* processes_to_kill of _stop_all_vpn_connections
KillList == {"xl2tpd", "pppd", "charon", "starter"}

\* files_to_remove of _stop_all_vpn_connections
StopFiles == {"l2tp-control", "charon.pid", "starter.charon.pid",
              "starter.pid", "charon.ctl", "charon.vici"}

\* files_to_remove of _ensure_clean_strongswan_state
CleanFiles == {"charon.pid", "starter.charon.pid", "starter.pid",
               "charon.ctl", "charon.vici"}

\* files a running charon creates, and files the starter creates
CharonFiles == {"charon.pid", "charon.vici"}
StarterFiles == {"starter.charon.pid"}

\* The outcomes the two ipsec commands of stopAll can have on host state p:
\* 'ipsec down' returns, or hangs on a running charon past its timeout;
\* 'ipsec stop' stops a running starter, fails, or hangs on it past its
\* timeout.  subprocess.run raises TimeoutExpired on a timeout.
StopOutcomes(p) ==
    [down : {"ret"} \cup (IF "charon" \in p THEN {"raise"} ELSE {}),
     stop : {"fail"} \cup (IF "starter" \in p THEN {"ok", "raise"} ELSE {})]

\* _stop_all_vpn_connections removing the files only after a successful
\* 'ipsec stop' (mutant)
StopAllKeepFiles(p, f, o) ==
    IF o.down = "raise" \/ o.stop = "raise"
    THEN [procs |-> p, files |-> f, raised |-> TRUE, down |-> DownConnection]
    ELSE [procs |-> p \ KillList,
          files |-> IF o.stop = "ok" THEN f \ StopFiles ELSE f,
          raised |-> FALSE, down |-> DownConnection]

\* _stop_all_vpn_connections: host state (p, f) under command outcomes o.
\* The whole body is one try block: the first exception skips the rest.
\* down: the connection name given to 'ipsec down', its first command.
StopAll(p, f, o) ==
    IF o.down = "raise" \/ o.stop = "raise"
    THEN [procs |-> p, files |-> f, raised |-> TRUE, down |-> DownConnection]
    ELSE LET p1 == IF o.stop = "ok" THEN p \ {"starter", "charon"} ELSE p
         IN  [procs |-> p1 \ KillList, files |-> f \ StopFiles,
              raised |-> FALSE, down |-> DownConnection]

NoStop == [valid |-> FALSE, idle |-> FALSE, inARow |-> FALSE, same |-> FALSE,
           down |-> "none"]

\* What is left of that once the next step has been taken
StopSeen == [valid |-> TRUE, idle |-> FALSE, inARow |-> FALSE, same |-> FALSE,
             down |-> DownConnection]

\* What is remembered of a stopAll call that took the host to state r:
\* idle: no daemon was running when it was called; inARow: the operation
\* before it on the daemons was a stopAll as well; same: it changed nothing.
StopRecord(r) ==
    [valid |-> TRUE, idle |-> (procs \cap KillList = {}),
     inARow |-> (lastStop.valid /\ sinceStop = 0),
     same |-> (r.procs = procs /\ r.files = files),
     down |-> r.down]

----------------------------------------------------------------------------
(* Output text of the daemon commands *)

\* A text is a set of phrases.  Lower is str.lower() on a phrase; Subs is
\* the set of searched patterns that occur in a phrase as written.  What a
\* text has after its 200th character is the phrase "past 200 characters".
Phrases == {"ESTABLISHED", "ISAKMP SA established", "STATE_MAIN_R3",
            "no proposal chosen", "NO PROPOSAL CHOSEN",
            "authentication failed", "timeout", "retransmit", "expired",
            "No status available", "other", "past 200 characters"}

Lower(ph) ==
    CASE ph = "ESTABLISHED" -> "established"
      [] ph = "ISAKMP SA established" -> "isakmp sa established"
      [] ph = "STATE_MAIN_R3" -> "state_main_r3"
      [] ph = "NO PROPOSAL CHOSEN" -> "no proposal chosen"
      [] ph = "No status available" -> "no status available"
      [] OTHER -> ph

Subs(ph) ==
    CASE ph = "ESTABLISHED" -> {"ESTABLISHED"}
      [] ph = "ISAKMP SA established" -> {"ISAKMP SA established"}
      [] ph = "STATE_MAIN_R3" -> {"STATE_MAIN_R3"}
      [] ph = "no proposal chosen" -> {"no proposal chosen"}
      [] ph = "authentication failed" -> {"authentication failed"}
      [] ph = "timeout" -> {"timeout"}
      [] ph = "retransmit" -> {"retransmit"}
      [] ph = "expired" -> {"expired"}
      [] OTHER -> {}

\* pattern in text
In(pat, text) == \E ph \in text : pat \in Subs(ph)

\* pattern in text.lower()
InLower(pat, text) == \E ph \in text : pat \in Subs(Lower(ph))

\* The texts 'ipsec up' may print and 'ipsec statusall' may print.
UpTexts == {{"other"}, {"no proposal chosen"}, {"NO PROPOSAL CHOSEN"},
            {"authentication failed"}, {"timeout"}, {"retransmit"},
            {"ISAKMP SA established"}, {"STATE_MAIN_R3"},
            {"ISAKMP SA established", "expired"},
            {"no proposal chosen", "authentication failed"}}

StatusTexts == {{}, {"ESTABLISHED"}, {"no proposal chosen"},
                {"authentication failed"}, {"expired"}}

\* status_result.stdout.decode() if status_result.returncode == 0
\* else "No status available"
StatusText(rc, out) == IF rc = "zero" THEN out ELSE {"No status available"}

\* up_output[:200]
First200(text) == text \ {"past 200 characters"}

NoOutcome == [set |-> FALSE, success |-> FALSE, err |-> "none", detail |-> {}]

\* detail: the raw output quoted in the error message
Ret(s, e) == [set |-> TRUE, success |-> s, err |-> e, detail |-> {}]

\* f"Connection failed. Details: {up_output[:200]}..."
GenericFailure(up) ==
    [Ret(FALSE, "Connection failed") EXCEPT !.detail = First200(up)]

\* The analysis of _test_vpn_connection with ESTABLISHED tested last (mutant)
ClassifyEstablishedLast(up, st) ==
    IF InLower("no proposal chosen", up) \/ InLower("no proposal chosen", st)
    THEN Ret(FALSE, "Encryption algorithm mismatch")
    ELSE IF In("ESTABLISHED", st) THEN Ret(TRUE, "none")
    ELSE Ret(FALSE, "Connection failed")

\* The analysis of _test_vpn_connection with the first rule lost (mutant)
ClassifyNoMismatchRule(up, st) ==
    IF In("ESTABLISHED", st) THEN Ret(TRUE, "none")
    ELSE Ret(FALSE, "Connection failed")

\* The analysis with the shared-key rule before the mismatch rule (mutant)
ClassifyAuthFirst(up, st) ==
    IF In("ESTABLISHED", st) THEN Ret(TRUE, "none")
    ELSE IF InLower("authentication failed", up)
            \/ InLower("authentication failed", st)
    THEN Ret(FALSE, "Authentication failed")
    ELSE IF InLower("no proposal chosen", up)
            \/ InLower("no proposal chosen", st)
    THEN Ret(FALSE, "Encryption algorithm mismatch")
    ELSE IF InLower("timeout", up) \/ InLower("retransmit", up)
    THEN Ret(FALSE, "Server not responding to handshake")
    ELSE IF In("ISAKMP SA established", up) \/ In("STATE_MAIN_R3", up)
    THEN IF InLower("expired", up) \/ InLower("expired", st)
         THEN Ret(FALSE, "IPSec SA established but immediately expired")
         ELSE Ret(TRUE, "none")
    ELSE GenericFailure(up)

\* The analysis at the end of _test_vpn_connection
Classify(up, st) ==
    IF In("ESTABLISHED", st) THEN Ret(TRUE, "none")
    ELSE IF InLower("no proposal chosen", up)
            \/ InLower("no proposal chosen", st)
    THEN Ret(FALSE, "Encryption algorithm mismatch")
    ELSE IF InLower("authentication failed", up)
            \/ InLower("authentication failed", st)
    THEN Ret(FALSE, "Authentication failed")
    ELSE IF InLower("timeout", up) \/ InLower("retransmit", up)
    THEN Ret(FALSE, "Server not responding to handshake")
    ELSE IF In("ISAKMP SA established", up) \/ In("STATE_MAIN_R3", up)
    THEN IF InLower("expired", up) \/ InLower("expired", st)
         THEN Ret(FALSE, "IPSec SA established but immediately expired")
         ELSE Ret(TRUE, "none")
    ELSE GenericFailure(up)

----------------------------------------------------------------------------
(* Control flow of one attempt *)

NoProbe == [poll |-> "none", pgrep |-> "none", status |-> "none"]

\* A return statement that leaves without passing the finally block (mutant)
AfterReturnNoFinally == "returned"

\* Where a return or a caught exception inside the try block of
\* _test_vpn_connection leads: the finally block.
AfterReturn == "finally"

\* The latency taken when the attempt is entered (mutant)
SampleAtEntry(t) == 0

\* int((time.time() - start_time) * 1000), t units after start_time
Sample(t) == t * 1000

\* a step of the attempt has run
Tick == elapsed' = elapsed + 1

\* a step of helper fn has run; exc: it raised an exception
Note(fn, exc) == raised' = IF exc THEN raised \cup {fn} ELSE raised

\* The exception of the first stopAll handed on to the attempt (mutant)
AfterPreStopReraise(r) == IF r.raised THEN AfterReturn ELSE "materialize"

\* self._stop_all_vpn_connections() returns None whatever happened inside
\* it; the attempt goes on to the configuration writers
AfterPreStop(r) == "materialize"

\* return <triple> inside the try block, or in one of its except clauses:
\* connection_time is computed on the line before
Return(o) ==
    /\ pc' = AfterReturn
    /\ outcome' = o
    /\ nOutcomes' = nOutcomes + 1
    /\ connection_time' = Sample(elapsed')

\* The attempt without its 'except subprocess.TimeoutExpired' clause (mutant)
CaughtAsText(e) == Ret(FALSE, "exception text")

\* except subprocess.TimeoutExpired: ... "VPN connection timeout";
\* except Exception as e: ... str(e)
Caught(e) ==
    IF e = "TimeoutExpired" THEN Ret(FALSE, "VPN connection timeout")
    ELSE Ret(FALSE, "exception text")

\* The ping result taken at face value (mutant)
BasicConnectivityStrict(res) == res = "ok"

\* _test_basic_connectivity: what it returns for what ping did
\* ("ok": exit code 0, "fail": another exit code, "raise": an exception)
BasicConnectivity(res) ==
    CASE res = "ok" -> TRUE
      [] res = "fail" -> TRUE
      [] OTHER -> TRUE

\* The attempt going on whatever daemon start returned (mutant)
AfterStartIgnoreResult(b) == [pc |-> "load_pgrep", out |-> NoOutcome]

\* if not self._start_strongswan_daemon(): return False, ...
AfterStart(b) ==
    IF b THEN [pc |-> "load_pgrep", out |-> NoOutcome]
    ELSE [pc |-> AfterReturn,
          out |-> Ret(FALSE, "Failed to start strongSwan daemon")]

\* if not self._load_ipsec_config(): return False, ...
AfterLoad(b) ==
    IF b THEN [pc |-> "bring_up", out |-> NoOutcome]
    ELSE [pc |-> AfterReturn,
          out |-> Ret(FALSE, "Failed to load IPSec configuration")]

\* _start_strongswan_daemon returns b to the attempt
StartDone(b) ==
    /\ startResult' = (IF b THEN "true" ELSE "false")
    /\ pc' = AfterStart(b).pc
    /\ outcome' = AfterStart(b).out
    /\ nOutcomes' = nOutcomes + (IF AfterStart(b).out.set THEN 1 ELSE 0)
    /\ connection_time' = IF AfterStart(b).out.set THEN Sample(elapsed')
                          ELSE connection_time

\* _load_ipsec_config returns b to the attempt
LoadDone(b) ==
    /\ loadResult' = (IF b THEN "true" ELSE "false")
    /\ pc' = AfterLoad(b).pc
    /\ outcome' = AfterLoad(b).out
    /\ nOutcomes' = nOutcomes + (IF AfterLoad(b).out.set THEN 1 ELSE 0)
    /\ connection_time' = IF AfterLoad(b).out.set THEN Sample(elapsed')
                          ELSE connection_time

\* A daemon may have died since it was last observed.
AliveChoices == IF "charon" \in procs THEN {TRUE, FALSE} ELSE {FALSE}

\* What 'pgrep charon' does when charon is alive or not: exit code 0,
\* exit code 1, or a subprocess timeout.
PgrepResults(alive) == {IF alive THEN "ok" ELSE "fail", "raise"}

\* A launch strategy of daemon start is used.
Launch(strategy) ==
    /\ launches' = Append(launches, strategy)
    /\ launchCtx' = Append(launchCtx, probe)
    /\ sinceStop' = 1

cfgVars == <<argv, db_config, entries, servers_str, vpn_servers>>
procVars == <<exitCode, signal, summary, health, dbLog>>
schedRest == <<idx, results, db, vpn_timeout, cfgVars, procVars, conf>>
schedVars == <<schedRest, events>>
hostVars == <<procs, files, launched, tcpdump>>
retVars == <<outcome, nOutcomes, connection_time>>
attemptRest == <<pingRes, stopLog, wrote, loadResult, loadCalls, loadLog, upIssued,
                 upName,
                 up_output, status_output, statusQueries, statusRc, waited>>
startVars == <<startResult, launches, launchCtx, probe>>
stopVars == <<lastStop, sinceStop>>

----------------------------------------------------------------------------
(* The environment: VPN_SERVERS and the database settings *)

\* A string is a sequence of characters; ":", "," and " " are the
\* characters the parser looks at, any other token stands for a run of
\* other characters.  A field is a string without these three.
NameOf(i) == <<"vpn", ToString(i)>>
AddrOf(i) == <<"ip", ToString(i)>>

\* An entry as it is written into VPN_SERVERS: its fields, and whether it is
\* surrounded by blanks.
FullEntry(i) ==
    [fields |-> <<NameOf(i), AddrOf(i), <<"user", ToString(i)>>,
                  <<"pass", ToString(i)>>, <<"psk", ToString(i)>>>>,
     pad |-> FALSE]
PaddedEntry(i) == [FullEntry(i) EXCEPT !.pad = TRUE]
TwoField == [fields |-> <<NameOf(0), AddrOf(0)>>, pad |-> FALSE]
FourField ==
    [fields |-> <<NameOf(4), AddrOf(4), <<"user">>, <<"pass">>>>, pad |-> FALSE]
SixField ==
    [fields |-> <<NameOf(6), AddrOf(6), <<"user">>, <<"pass">>, <<"psk">>,
                  <<"extra">>>>,
     pad |-> FALSE]
NoUsername ==
    [fields |-> <<NameOf(9), AddrOf(9), <<>>, <<"pass">>, <<"psk">>>>,
     pad |-> FALSE]

RECURSIVE Join(_, _)
\* sep.join(pieces)
Join(pieces, sep) ==
    IF pieces = <<>> THEN <<>>
    ELSE IF Len(pieces) = 1 THEN pieces[1]
    ELSE pieces[1] \o <<sep>> \o Join(Tail(pieces), sep)

EntryText(e) ==
    IF e.pad THEN <<" ">> \o Join(e.fields, ":") \o <<" ">>
    ELSE Join(e.fields, ":")

\* The value of VPN_SERVERS written from the entries es
ServersString(es) == Join([i \in 1..Len(es) |-> EntryText(es[i])], ",")

\* The entry lists of the runs of the monitor: VPN_SERVERS unset, one entry
\* that is not well-formed, and NumServers well-formed entries with one that
\* is not well-formed after the first.
ServerList ==
    [i \in 1..(NumServers + 1) |->
        IF i = 1 THEN FullEntry(1)
        ELSE IF i = 2 THEN TwoField
        ELSE FullEntry(i - 1)]
RunInputs == {<<>>, <<TwoField>>, ServerList}

\* The entry lists given to the parser on its own
EntryPool == {FullEntry(1), FullEntry(2), PaddedEntry(3), TwoField,
              FourField, SixField, NoUsername}
ParseInputs == UNION {[1..n -> EntryPool] : n \in 0..MaxEntries}

RECURSIVE Split(_, _)
\* str.split(sep)
Split(s, sep) ==
    IF \A i \in 1..Len(s) : s[i] # sep THEN <<s>>
    ELSE LET k == CHOOSE i \in 1..Len(s) :
                      s[i] = sep /\ \A j \in 1..(i - 1) : s[j] # sep
         IN  <<SubSeq(s, 1, k - 1)>> \o Split(SubSeq(s, k + 1, Len(s)), sep)

RECURSIVE Strip(_)
\* str.strip()
Strip(s) ==
    IF s # <<>> /\ Head(s) = " " THEN Strip(Tail(s))
    ELSE IF s # <<>> /\ s[Len(s)] = " " THEN Strip(SubSeq(s, 1, Len(s) - 1))
    ELSE s

\* parts[k - 1] (k <= Len(parts) in every entry the parser accepts)
Part(parts, k) == IF k <= Len(parts) THEN parts[k] ELSE <<>>

\* The dictionary appended for an accepted entry
ServerOf(parts) ==
    [name |-> Part(parts, 1), ip |-> Part(parts, 2),
     username |-> Part(parts, 3), password |-> Part(parts, 4),
     shared_key |-> Part(parts, 5)]

\* An entry accepted when it has the five fields and more (mutant)
AcceptsAtLeastFive(parts) == Len(parts) >= 5

\* An entry accepted without the credentials as well (mutant)
AcceptsWithoutCredentials(parts) == Len(parts) \in {2, 5}

\* if len(parts) != 5: ...; continue
Accepts(parts) == Len(parts) = 5

RECURSIVE ParseEntries(_)
\* for server_config in servers_str.split(','): ...
ParseEntries(configs) ==
    IF configs = <<>> THEN <<>>
    ELSE LET parts == Split(Strip(Head(configs)), ":")
         IN  (IF Accepts(parts) THEN <<ServerOf(parts)>> ELSE <<>>)
                 \o ParseEntries(Tail(configs))

\* _parse_vpn_servers; raised: ValueError, VPN_SERVERS is not set
ParseVpnServers(s) ==
    IF s = <<>> THEN [raised |-> TRUE, servers |-> <<>>]
    ELSE [raised |-> FALSE, servers |-> ParseEntries(Split(s, ","))]

\* required_db_fields of _validate_config
RequiredDb == {"host", "user", "password", "database"}

\* The database settings of the runs: all set, or one missing
DbInputs == {RequiredDb} \cup {RequiredDb \ {k} : k \in RequiredDb}

\* _validate_config without the check of the server list (mutant)
ValidateConfigDbOnly(cfg, servers) == RequiredDb \ cfg = {}

\* _validate_config: TRUE when it does not raise ValueError
ValidateConfig(cfg, servers) ==
    /\ RequiredDb \ cfg = {}
    /\ servers # <<>>

\* health_check: what it returns for what the database round trip,
\* 'ipsec --version' (check=True) and 'xl2tpd --version' did
\* ("skip": the step is not reached)
HealthCheckResult(dbr, ipsec, xl) ==
    dbr = "ok" /\ ipsec = "zero" /\ xl \in {"zero", "nonzero"}

----------------------------------------------------------------------------
(* The database *)

\* computer_identifier of this monitoring host
Host == "this-host"

\* The row of monitor_instances a new row for host h collides with
DuplicateKey(hb, h) == {r \in hb : r.host = h}

\* The upsert leaving the count of an existing row as it is (mutant)
UpsertNoIncrement(hb, h) ==
    IF DuplicateKey(hb, h) = {}
    THEN hb \cup {[host |-> h, total_tests_run |-> 1]}
    ELSE hb

\* INSERT INTO monitor_instances (..., total_tests_run) VALUES (..., 1)
\* ON DUPLICATE KEY UPDATE ..., total_tests_run = total_tests_run + 1
Upsert(hb, h) ==
    IF DuplicateKey(hb, h) = {}
    THEN hb \cup {[host |-> h, total_tests_run |-> 1]}
    ELSE {IF r \in DuplicateKey(hb, h)
          THEN [r EXCEPT !.total_tests_run = @ + 1] ELSE r : r \in hb}

\* How _log_result can end: "ok", or the step that raised
DbOutcomes == {"ok", "connect", "insert", "upsert", "commit"}

\* A connection that commits each statement as it is executed (mutant)
PersistAutocommit(d, r) ==
    [rows |-> IF r \in {"upsert", "commit", "ok"} THEN d.rows + 1 ELSE d.rows,
     hb |-> IF r \in {"commit", "ok"} THEN Upsert(d.hb, Host) ELSE d.hb]

\* The committed rows after a _log_result that ended as r: nothing is
\* committed unless connection.commit() returned.
Persist(d, r) ==
    IF r = "ok" THEN [rows |-> d.rows + 1, hb |-> Upsert(d.hb, Host)]
    ELSE d

\* _log_result handing on the exceptions of its statements (mutant)
SwallowedOnlyConnect(r) == r \in {"ok", "connect"}

\* except Exception as e: logger.error(...) around the body of _log_result
Swallowed(r) == TRUE

\* The loop going on two servers further (mutant)
LoopNextSkip(i) == i + 2

\* for server in self.vpn_servers: the next element
LoopNext(i) == i + 1

\* The files _create_ipsec_config and _create_xl2tpd_config write, in the
\* order they are written
WriteOrder == <<"/etc/ipsec.conf", "/etc/ipsec.secrets",
                "/etc/xl2tpd/xl2tpd.conf", "/etc/ppp/options.l2tpd",
                "/etc/ppp/chap-secrets">>

ConfFiles == {WriteOrder[i] : i \in 1..Len(WriteOrder)}

\* The values of a server that the text written to file f has in it
\* (<<>>: the file has no such value), and the connection it defines
Values(f, server) ==
    [conn |-> IF f = "/etc/ipsec.conf" THEN DefinedConnection ELSE "none",
     ip |-> IF f \in {"/etc/ipsec.conf", "/etc/ipsec.secrets",
                      "/etc/xl2tpd/xl2tpd.conf"}
            THEN server.ip ELSE <<>>,
     shared_key |-> IF f = "/etc/ipsec.secrets" THEN server.shared_key
                    ELSE <<>>,
     username |-> IF f \in {"/etc/xl2tpd/xl2tpd.conf",
                            "/etc/ppp/options.l2tpd", "/etc/ppp/chap-secrets"}
                  THEN server.username ELSE <<>>,
     password |-> IF f \in {"/etc/ppp/options.l2tpd", "/etc/ppp/chap-secrets"}
                  THEN server.password ELSE <<>>]

\* The writers rendering the first configured server (mutant)
RenderFirstConfigured(f, server) == Values(f, vpn_servers[1])

\* The f-strings of the two writers, given the server of the attempt
Render(f, server) == Values(f, server)

\* the files os.chmod(..., 0o600) is called on
Chmodded == {"/etc/ipsec.secrets", "/etc/ppp/chap-secrets"}

\* open(f, 'w') creates a file with mode 0666 & ~umask and leaves the mode of
\* an existing file as it is
ModeAfterWrite(f, old) ==
    IF f \in Chmodded THEN "0600"
    ELSE IF old = "absent" THEN "0666 & ~umask" ELSE old

Absent == [content |-> [conn |-> "none", ip |-> <<>>, shared_key |-> <<>>, username |-> <<>>,
                        password |-> <<>>],
           mode |-> "absent"]

WriteFile(old, f, server) ==
    [content |-> Render(f, server), mode |-> ModeAfterWrite(f, old.mode)]

\* The files on disk after the first k writes for the server
WriteFiles(c, k, server) ==
    [f \in ConfFiles |->
        IF \E i \in 1..k : WriteOrder[i] = f
        THEN WriteFile(c[f], f, server) ELSE c[f]]

NoLoad == [pgrep |-> "none", reload |-> "none", restart |-> FALSE,
           shown |-> FALSE]

\* stopped: a stopAll has run since the handler ran
NoSignal == [got |-> FALSE, inFlight |-> 0, stopped |-> FALSE]

\* SystemExit leaving the attempt without its finally block (mutant)
AfterSignalNoFinally(inAttempt) == "cleanup"

\* Where SystemExit raised by signal_handler goes first: the finally block
\* of the attempt that is running, or straight out of main
AfterSignal(inAttempt) == IF inAttempt THEN "sig_finally" ELSE "cleanup"

NoHealth == [db |-> "none", ipsec |-> "none", xl |-> "none"]

----------------------------------------------------------------------------
(* main, run_tests and _test_vpn_connection *)

\* Nothing has run yet.
Fresh ==
    /\ vpn_servers = <<>>
    /\ exitCode = "none"
    /\ signal = NoSignal
    /\ events = <<>>
    /\ summary = <<>>
    /\ health = NoHealth
    /\ dbLog = <<>>
    /\ idx = 1
    /\ results = <<>>
    /\ db = [rows |-> 0, hb |-> {}]
    /\ conf = [f \in ConfFiles |-> Absent]
    /\ vpn_timeout = DefaultVpnTimeout
    /\ launched = {}
    /\ tcpdump = "none"
    /\ outcome = NoOutcome
    /\ nOutcomes = 0
    /\ connection_time = 0
    /\ elapsed = 0
    /\ raised = {}
    /\ pingRes = "none"
    /\ stopLog = <<>>
    /\ wrote = FALSE
    /\ startResult = "none"
    /\ loadResult = "none"
    /\ loadCalls = 0
    /\ loadLog = NoLoad
    /\ upIssued = FALSE
    /\ upName = "none"
    /\ up_output = {}
    /\ status_output = {}
    /\ statusQueries = 0
    /\ statusRc = "none"
    /\ waited = 0
    /\ launches = <<>>
    /\ launchCtx = <<>>
    /\ probe = NoProbe
    /\ lastStop = NoStop
    /\ sinceStop = 0

\* The process has been started: main is entered.
Init ==
    /\ pc = "main"
    /\ argv \in {"--health-check", "--single-run", "none"}
    /\ db_config \in DbInputs
    /\ entries \in RunInputs
    /\ servers_str = ServersString(entries)
    /\ procs \in {{}, {"xl2tpd"}}
    /\ files \in {{}, {"l2tp-control"}}
    /\ Fresh

\* The locals of the attempt other than the processes it launched are gone.
AttemptHistoryGone ==
    /\ outcome' = NoOutcome
    /\ nOutcomes' = 0
    /\ connection_time' = 0
    /\ elapsed' = 0
    /\ raised' = {}
    /\ pingRes' = "none"
    /\ stopLog' = <<>>
    /\ wrote' = FALSE
    /\ startResult' = "none"
    /\ loadResult' = "none"
    /\ loadCalls' = 0
    /\ loadLog' = NoLoad
    /\ upIssued' = FALSE
    /\ upName' = "none"
    /\ up_output' = {}
    /\ status_output' = {}
    /\ statusQueries' = 0
    /\ statusRc' = "none"
    /\ waited' = 0
    /\ launches' = <<>>
    /\ launchCtx' = <<>>
    /\ probe' = NoProbe

\* monitor = VPNMonitor(): _parse_vpn_servers, _validate_config and
\* tempfile.mkdtemp; main catches an exception of these and calls
\* sys.exit(1).
Construct ==
    /\ UNCHANGED raised
    /\ UNCHANGED conf
    /\ UNCHANGED elapsed
    /\ pc = "main"
    /\ LET parsed == ParseVpnServers(servers_str) IN
       /\ vpn_servers' = parsed.servers
       /\ \E tmp \in {"ok", "raise"} :
            IF /\ ~parsed.raised
               /\ ValidateConfig(db_config, parsed.servers)
               /\ tmp = "ok"
            THEN /\ pc' = IF argv = "--health-check" THEN "health" ELSE "loop"
                 /\ exitCode' = exitCode
            ELSE /\ pc' = "cleanup"
                 /\ exitCode' = "nonzero"
    /\ UNCHANGED <<argv, db_config, entries, servers_str, signal, health,
                   dbLog, events,
                   summary, idx, results, db, vpn_timeout, hostVars, retVars,
                   attemptRest, startVars, stopVars>>

\* if monitor.health_check(): sys.exit(0) else: sys.exit(1)
HealthCheck ==
    /\ UNCHANGED raised
    /\ UNCHANGED conf
    /\ UNCHANGED elapsed
    /\ pc = "health"
    /\ \E dbr \in {"ok", "raise"} :
       \E ipsec \in (IF dbr = "ok" THEN {"zero", "nonzero", "raise"}
                     ELSE {"skip"}) :
       \E xl \in (IF ipsec = "zero" THEN {"zero", "nonzero", "raise"}
                  ELSE {"skip"}) :
         /\ health' = [db |-> dbr, ipsec |-> ipsec, xl |-> xl]
         /\ exitCode' = IF HealthCheckResult(dbr, ipsec, xl) THEN "zero"
                        ELSE "nonzero"
    /\ pc' = "cleanup"
    /\ UNCHANGED <<cfgVars, signal, dbLog, events, summary, idx, results, db,
                   vpn_timeout, hostVars, retVars, attemptRest, startVars,
                   stopVars>>

\* The positions inside the try block of _test_vpn_connection
AttemptPcs == {"ping", "pre_stop", "materialize", "start_begin",
               "direct_launch", "direct_poll", "direct_pgrep",
               "wrapper_start", "wrapper_pgrep", "force_launch",
               "force_pgrep", "fallback_start", "fallback_verify",
               "load_pgrep", "load_reload", "load_restart", "load_verify",
               "bring_up", "status", "finally"}

\* SIGTERM or SIGINT: signal_handler calls sys.exit(0), SystemExit goes up
\* from where the thread is.  Inside an attempt it passes the finally
\* block; nothing between there and main catches it.  (Where it is raised
\* inside one of the bare except blocks it is dropped and the state is as
\* before.)
Signal ==
    /\ UNCHANGED conf
    /\ pc \in AttemptPcs \cup {"loop", "returned", "health"}
    /\ signal' = [got |-> TRUE,
                  inFlight |-> IF pc \in AttemptPcs THEN idx ELSE 0,
                  stopped |-> FALSE]
    /\ exitCode' = "zero"
    /\ pc' = AfterSignal(pc \in AttemptPcs)
    /\ AttemptHistoryGone
    /\ UNCHANGED <<cfgVars, events, summary, health, dbLog, idx, results, db,
                   vpn_timeout, hostVars, stopVars>>

\* finally: self._stop_all_vpn_connections() while SystemExit goes up
SigFinalStop ==
    /\ UNCHANGED raised
    /\ UNCHANGED elapsed
    /\ pc = "sig_finally"
    /\ \E o \in StopOutcomes(procs) :
         LET r == StopAll(procs, files, o) IN
         /\ procs' = r.procs
         /\ files' = r.files
         /\ lastStop' = StopRecord(r)
    /\ sinceStop' = 0
    /\ signal' = [signal EXCEPT !.stopped = TRUE]
    /\ pc' = "cleanup"
    /\ UNCHANGED <<idx, results, db, vpn_timeout, cfgVars, exitCode, summary,
                   health, dbLog, conf, events, launched, tcpdump, retVars,
                   attemptRest, startVars>>

\* for server in self.vpn_servers: the attempt is entered; its temporary
\* directory is created (os.makedirs may raise).
AttemptBegin ==
    /\ UNCHANGED raised
    /\ Tick
    /\ pc = "loop"
    /\ idx <= Len(vpn_servers)
    /\ events' = Append(events, [kind |-> "attempt",
                                 server |-> vpn_servers[idx].name,
                                 success |-> FALSE, err |-> "none"])
    /\ \E mk \in {"ok", "raise"} :
         IF mk = "ok"
         THEN /\ pc' = "ping"
              /\ outcome' = NoOutcome
              /\ nOutcomes' = 0
              /\ connection_time' = 0
         ELSE /\ pc' = AfterReturn
              /\ outcome' = Caught("OSError")
              /\ nOutcomes' = 1
              /\ connection_time' = Sample(elapsed')
    /\ UNCHANGED <<schedRest, hostVars, attemptRest, startVars, stopVars>>

\* if not self._test_basic_connectivity(ip): return False, ..., "Cannot reach"
Ping ==
    /\ UNCHANGED raised
    /\ Tick
    /\ pc = "ping"
    /\ \E res \in {"ok", "fail", "raise"} :
         /\ pingRes' = (IF res = "ok" THEN "ok" ELSE "failed")
         /\ IF BasicConnectivity(res)
            THEN pc' = "pre_stop" /\ UNCHANGED retVars
            ELSE Return(Ret(FALSE, "Cannot reach VPN server"))
    /\ UNCHANGED <<schedVars, hostVars, stopLog, wrote, loadResult, loadCalls, loadLog,
                   upIssued, upName, up_output, status_output, statusQueries, statusRc, waited,
                   startVars, stopVars>>

\* self._stop_all_vpn_connections() before the configuration is written
PreStop ==
    /\ Tick
    /\ pc = "pre_stop"
    /\ \E o \in StopOutcomes(procs) :
         LET r == StopAll(procs, files, o) IN
         /\ procs' = r.procs
         /\ files' = r.files
         /\ lastStop' = StopRecord(r)
         /\ Note("stopAll", r.raised)
         /\ pc' = AfterPreStop(r)
    /\ sinceStop' = 0
    /\ stopLog' = Append(stopLog, "pre")
    /\ UNCHANGED <<schedVars, launched, tcpdump, retVars, pingRes, wrote,
                   loadResult, loadCalls, loadLog, upIssued, upName, up_output, status_output,
                   statusQueries, statusRc, waited, startVars>>

\* _create_ipsec_config and _create_xl2tpd_config; a write may raise, after
\* k of the files have been written
Materialize ==
    /\ UNCHANGED raised
    /\ Tick
    /\ pc = "materialize"
    /\ \E k \in 0..Len(WriteOrder) :
         /\ conf' = WriteFiles(conf, k, vpn_servers[idx])
         /\ IF k = Len(WriteOrder)
            THEN /\ wrote' = TRUE
                 /\ pc' = "start_begin"
                 /\ UNCHANGED retVars
            ELSE /\ wrote' = FALSE
                 /\ Return(Caught("OSError"))
    /\ UNCHANGED <<idx, results, db, vpn_timeout, cfgVars, procVars, events,
                   hostVars, pingRes, stopLog, loadResult,
                   loadCalls, loadLog, upIssued, upName, up_output, status_output,
                   statusQueries, statusRc, waited, startVars, sinceStop>>
    /\ lastStop' = StopSeen

----------------------------------------------------------------------------
(* _start_strongswan_daemon *)

\* Binary discovery ('which' may time out), _ensure_clean_strongswan_state
\* and the search for a charon binary that answers --version.
StartBegin ==
    /\ Tick
    /\ pc = "start_begin"
    /\ \E disc \in {"ok", "raise"}, bin \in {"found", "none"} :
         /\ Note("start", disc = "raise")
         /\ IF disc = "raise"
            THEN /\ StartDone(FALSE)
                 /\ UNCHANGED <<procs, files, sinceStop>>
            ELSE /\ procs' = procs \ {"charon", "starter"}
                 /\ files' = files \ CleanFiles
                 /\ sinceStop' = 1
                 /\ startResult' = "none"
                 /\ pc' = IF bin = "found" THEN "direct_launch"
                          ELSE "fallback_start"
                 /\ UNCHANGED retVars
    /\ UNCHANGED <<schedVars, launched, tcpdump, attemptRest, launches,
                   launchCtx, probe, lastStop>>

\* Strategy 1: subprocess.Popen([charon_binary, ...])
DirectLaunch ==
    /\ Tick
    /\ pc = "direct_launch"
    /\ \E sp \in {"ok", "raise"} :
         /\ Note("start", sp = "raise")
         /\ IF sp = "ok"
            THEN /\ Launch("direct")
                 /\ probe' = NoProbe
                 /\ procs' = procs \cup {"charon"}
                 /\ files' = files \cup CharonFiles
                 /\ launched' = launched \cup {"charon"}
                 /\ startResult' = "none"
                 /\ pc' = "direct_poll"
                 /\ UNCHANGED retVars
            ELSE /\ StartDone(FALSE)
                 /\ UNCHANGED <<procs, files, launched, launches, launchCtx,
                                probe, sinceStop>>
    /\ UNCHANGED <<schedVars, tcpdump, attemptRest, lastStop>>

\* time.sleep(3); if charon_process.poll() is None: ... else: method 2
DirectPoll ==
    /\ UNCHANGED raised
    /\ Tick
    /\ pc = "direct_poll"
    /\ \E alive \in AliveChoices :
         /\ procs' = IF alive THEN procs ELSE procs \ {"charon"}
         /\ probe' = [probe EXCEPT !.poll = IF alive THEN "ok" ELSE "fail"]
         /\ pc' = IF alive THEN "direct_pgrep" ELSE "wrapper_start"
    /\ UNCHANGED <<schedVars, files, launched, tcpdump, retVars, attemptRest,
                   startResult, launches, launchCtx, stopVars>>

\* After 'pgrep -l charon' of strategy 1, strategy 2 when it fails (mutant)
AfterDirectPgrepTryNext(res) ==
    CASE res = "ok" -> "true"
      [] res = "fail" -> "wrapper"
      [] OTHER -> "false"

\* After 'pgrep -l charon' of strategy 1: return True, or return False
\* (a non-zero exit code, or an exception)
AfterDirectPgrep(res) ==
    CASE res = "ok" -> "true"
      [] res = "fail" -> "false"
      [] OTHER -> "false"

\* pgrep -l charon decides the result of the direct launch
DirectPgrep ==
    /\ Tick
    /\ pc = "direct_pgrep"
    /\ \E alive \in AliveChoices : \E res \in PgrepResults(alive) :
         /\ Note("start", res = "raise")
         /\ procs' = IF alive THEN procs ELSE procs \ {"charon"}
         /\ probe' = [probe EXCEPT !.pgrep = IF res = "ok" THEN "ok"
                                             ELSE "fail"]
         /\ IF AfterDirectPgrep(res) = "wrapper"
            THEN /\ pc' = "wrapper_start"
                 /\ UNCHANGED <<startResult, retVars>>
            ELSE StartDone(AfterDirectPgrep(res) = "true")
    /\ UNCHANGED <<schedVars, files, launched, tcpdump, attemptRest, launches,
                   launchCtx, stopVars>>

\* After 'pgrep charon' of strategy 2, force-start on success (mutant)
AfterWrapperPgrepInverted(res) ==
    CASE res = "ok" -> "force"
      [] res = "fail" -> "true"
      [] OTHER -> "false"

\* After 'pgrep charon' of strategy 2: return True, go on to strategy 3,
\* or (an exception) return False
AfterWrapperPgrep(res) ==
    CASE res = "ok" -> "true"
      [] res = "fail" -> "force"
      [] OTHER -> "false"

\* Strategy 2: subprocess.run(['timeout', '10', 'ipsec', 'start'])
WrapperStart ==
    /\ Tick
    /\ pc = "wrapper_start"
    /\ \E rc \in {"zero", "nonzero", "raise"} :
         /\ Note("start", rc = "raise")
         /\ Launch("wrapper")
         /\ probe' = NoProbe
         /\ IF rc = "zero"
            THEN /\ procs' = procs \cup {"starter", "charon"}
                 /\ files' = files \cup CharonFiles \cup StarterFiles
                 /\ launched' = launched \cup {"starter", "charon"}
                 /\ startResult' = "none"
                 /\ pc' = "wrapper_pgrep"
                 /\ UNCHANGED retVars
            ELSE /\ StartDone(FALSE)
                 /\ UNCHANGED <<procs, files, launched>>
    /\ UNCHANGED <<schedVars, tcpdump, attemptRest, lastStop>>

\* time.sleep(3); pgrep charon
WrapperPgrep ==
    /\ Tick
    /\ pc = "wrapper_pgrep"
    /\ \E alive \in AliveChoices : \E res \in PgrepResults(alive) :
         /\ Note("start", res = "raise")
         /\ procs' = IF alive THEN procs ELSE procs \ {"charon"}
         /\ probe' = [probe EXCEPT !.pgrep = IF res = "ok" THEN "ok"
                                             ELSE "fail"]
         /\ IF AfterWrapperPgrep(res) = "force"
            THEN /\ pc' = "force_launch"
                 /\ UNCHANGED <<startResult, retVars>>
            ELSE StartDone(AfterWrapperPgrep(res) = "true")
    /\ UNCHANGED <<schedVars, files, launched, tcpdump, attemptRest, launches,
                   launchCtx, stopVars>>

\* Strategy 3: subprocess.Popen(starter_cmd), the starter binary when one
\* exists and ['ipsec', 'start'] otherwise
ForceLaunch ==
    /\ Tick
    /\ pc = "force_launch"
    /\ \E sp \in {"ok", "raise"} :
         /\ Note("start", sp = "raise")
         /\ IF sp = "ok"
            THEN /\ Launch("force")
                 /\ probe' = NoProbe
                 /\ procs' = procs \cup {"starter", "charon"}
                 /\ files' = files \cup CharonFiles \cup StarterFiles
                 /\ launched' = launched \cup {"starter", "charon"}
                 /\ startResult' = "none"
                 /\ pc' = "force_pgrep"
                 /\ UNCHANGED retVars
            ELSE /\ StartDone(FALSE)
                 /\ UNCHANGED <<procs, files, launched, launches, launchCtx,
                                probe, sinceStop>>
    /\ UNCHANGED <<schedVars, tcpdump, attemptRest, lastStop>>

\* time.sleep(5); pgrep charon: the final check
ForcePgrep ==
    /\ Tick
    /\ pc = "force_pgrep"
    /\ \E alive \in AliveChoices : \E res \in PgrepResults(alive) :
         /\ Note("start", res = "raise")
         /\ procs' = IF alive THEN procs ELSE procs \ {"charon"}
         /\ probe' = [probe EXCEPT !.pgrep = IF res = "ok" THEN "ok"
                                             ELSE "fail"]
         /\ StartDone(res = "ok")
    /\ UNCHANGED <<schedVars, files, launched, tcpdump, attemptRest, launches,
                   launchCtx, stopVars>>

\* _fallback_ipsec_start: subprocess.run(['ipsec', 'start'])
FallbackStart ==
    /\ Tick
    /\ pc = "fallback_start"
    /\ \E rc \in {"zero", "nonzero", "raise"} :
         /\ Note("start", rc = "raise")
         /\ Launch("wrapper")
         /\ probe' = NoProbe
         /\ IF rc = "zero"
            THEN /\ procs' = procs \cup {"starter", "charon"}
                 /\ files' = files \cup CharonFiles \cup StarterFiles
                 /\ launched' = launched \cup {"starter", "charon"}
                 /\ startResult' = "none"
                 /\ pc' = "fallback_verify"
                 /\ UNCHANGED retVars
            ELSE /\ StartDone(FALSE)
                 /\ UNCHANGED <<procs, files, launched>>
    /\ UNCHANGED <<schedVars, tcpdump, attemptRest, lastStop>>

\* _verify_charon_running: what it returns for what pgrep and
\* 'ipsec status' did ("skip": the command was not run)
VerifyCharonRunning(pg, st) == pg = "ok" /\ st = "ok"

\* time.sleep(5); _verify_charon_running(): pgrep charon, then ipsec status
FallbackVerify ==
    /\ Tick
    /\ pc = "fallback_verify"
    /\ \E alive \in AliveChoices : \E pg \in PgrepResults(alive) :
       \E st \in (IF pg = "ok" THEN {"ok", "fail", "raise"} ELSE {"skip"}) :
         /\ Note("start", pg = "raise" \/ st = "raise")
         /\ procs' = IF alive THEN procs ELSE procs \ {"charon"}
         /\ probe' = [probe EXCEPT
                        !.pgrep = IF pg = "ok" THEN "ok" ELSE "fail",
                        !.status = CASE st = "skip" -> "none"
                                     [] st = "ok" -> "ok"
                                     [] OTHER -> "fail"]
         /\ StartDone(VerifyCharonRunning(pg, st))
    /\ UNCHANGED <<schedVars, files, launched, tcpdump, attemptRest, launches,
                   launchCtx, stopVars>>

----------------------------------------------------------------------------
(* _load_ipsec_config *)

loadRest == <<pingRes, stopLog, wrote, upIssued, upName, up_output, status_output,
              statusQueries, statusRc, waited>>

\* pgrep charon: return False without a reload when charon is not there
LoadPgrep ==
    /\ Tick
    /\ pc = "load_pgrep"
    /\ loadCalls' = loadCalls + 1
    /\ \E alive \in AliveChoices : \E res \in PgrepResults(alive) :
         /\ Note("load", res = "raise")
         /\ procs' = IF alive THEN procs ELSE procs \ {"charon"}
         /\ loadLog' = [NoLoad EXCEPT !.pgrep = res]
         /\ IF res = "ok"
            THEN /\ pc' = "load_reload"
                 /\ UNCHANGED <<loadResult, retVars>>
            ELSE LoadDone(FALSE)
    /\ UNCHANGED <<schedVars, files, launched, tcpdump, loadRest, startVars,
                   stopVars>>

\* ipsec reload; a non-zero exit code leads to the restart
LoadReload ==
    /\ Tick
    /\ pc = "load_reload"
    /\ \E rc \in {"zero", "nonzero", "raise"} :
         /\ Note("load", rc = "raise")
         /\ loadLog' = [loadLog EXCEPT !.reload = rc]
         /\ CASE rc = "zero" ->
                  /\ pc' = "load_verify"
                  /\ UNCHANGED <<loadResult, retVars>>
              [] rc = "nonzero" ->
                  /\ pc' = "load_restart"
                  /\ UNCHANGED <<loadResult, retVars>>
              [] OTHER -> LoadDone(FALSE)
    /\ UNCHANGED <<schedVars, hostVars, loadCalls, loadRest, startVars,
                   stopVars>>

\* ipsec stop, then charon launched again from the first existing path,
\* then pgrep charon
LoadRestart ==
    /\ Tick
    /\ pc = "load_restart"
    /\ sinceStop' = 1
    /\ loadLog' = [loadLog EXCEPT !.restart = TRUE]
    /\ \E st \in {"ok", "fail", "raise"}, bin \in {"found", "none"},
          sp \in {"ok", "raise"}, alive \in BOOLEAN :
       \E pg \in PgrepResults(alive) :
         /\ Note("load", st = "raise"
                         \/ (bin = "found" /\ (sp = "raise" \/ pg = "raise")))
         /\ LET p1 == IF st = "ok" THEN procs \ {"starter", "charon"}
                      ELSE procs
            IN
            CASE st = "raise" ->
                   /\ LoadDone(FALSE)
                   /\ UNCHANGED <<procs, files, launched>>
              [] st # "raise" /\ (bin = "none" \/ sp = "raise") ->
                   /\ LoadDone(FALSE)
                   /\ procs' = p1
                   /\ UNCHANGED <<files, launched>>
              [] OTHER ->
                   /\ procs' = IF alive THEN p1 \cup {"charon"}
                               ELSE p1 \ {"charon"}
                   /\ files' = files \cup CharonFiles
                   /\ launched' = launched \cup {"charon"}
                   /\ IF pg = "ok"
                      THEN /\ pc' = "load_verify"
                           /\ UNCHANGED <<loadResult, retVars>>
                      ELSE LoadDone(FALSE)
    /\ UNCHANGED <<schedVars, tcpdump, loadCalls, loadRest, startVars,
                   lastStop>>

\* _verify_config_loaded satisfied by any status query that exits 0 (mutant)
VerifyConfigLoadedAnyOutput(st, lc) == st \in {"shown", "absent"}

\* _verify_config_loaded: what it returns for what 'ipsec status' and
\* 'ipsec listconns' showed ("shown": exit code 0 and the policy name in
\* the output, "absent": exit code 0 without it, "nonzero", "raise",
\* "skip": not run)
VerifyConfigLoaded(st, lc) ==
    CASE st = "shown" -> TRUE
      [] st = "absent" -> lc = "shown"
      [] OTHER -> FALSE

\* time.sleep(3); return self._verify_config_loaded()
LoadVerify ==
    /\ Tick
    /\ pc = "load_verify"
    /\ \E st \in {"shown", "absent", "nonzero", "raise"} :
       \E lc \in (IF st = "absent"
                  THEN {"shown", "absent", "nonzero", "raise"}
                  ELSE {"skip"}) :
         /\ Note("load", st = "raise" \/ lc = "raise")
         /\ loadLog' = [loadLog EXCEPT !.shown = (st = "shown" \/ lc = "shown")]
         /\ LoadDone(VerifyConfigLoaded(st, lc))
    /\ UNCHANGED <<schedVars, hostVars, loadCalls, loadRest, startVars,
                   stopVars>>

----------------------------------------------------------------------------
(* Bring-up, status check and analysis *)

\* tcpdump is started (optional), 'ipsec up windows11_exact' runs with a
\* timeout of 20 s, tcpdump is terminated and waited for.
BringUp ==
    /\ UNCHANGED raised
    /\ Tick
    /\ pc = "bring_up"
    /\ upIssued' = TRUE
    /\ upName' = UpConnection
    /\ loadLog' = NoLoad
    /\ \E cap \in {"ok", "raise"}, up \in {"ran", "timeout"} :
         IF up = "ran"
         THEN /\ \E text \in UpTexts : up_output' = text
              /\ tcpdump' = IF cap = "ok" THEN "reaped" ELSE "none"
              /\ pc' = "status"
              /\ UNCHANGED retVars
         ELSE /\ up_output' = {}
              /\ tcpdump' = IF cap = "ok" THEN "running" ELSE "none"
              /\ Return(Caught("TimeoutExpired"))
    /\ UNCHANGED <<schedVars, procs, files, launched, pingRes, stopLog, wrote,
                   loadResult, loadCalls, status_output, statusQueries,
                   statusRc, waited, startVars, stopVars>>

\* time.sleep(3); ipsec statusall; the analysis of the two texts
StatusCheck ==
    /\ UNCHANGED raised
    /\ Tick
    /\ pc = "status"
    /\ waited' = waited + SettleDelay
    /\ statusQueries' = statusQueries + 1
    /\ \E q \in {"zero", "nonzero", "timeout"} :
         /\ statusRc' = q
         /\ CASE q = "zero" ->
                  \E text \in StatusTexts :
                      /\ status_output' = text
                      /\ Return(Classify(up_output, text))
              [] q = "nonzero" ->
                  /\ status_output' = StatusText(q, {})
                  /\ Return(Classify(up_output, StatusText(q, {})))
              [] OTHER ->
                  /\ status_output' = {}
                  /\ Return(Caught("TimeoutExpired"))
    /\ UNCHANGED <<schedVars, hostVars, pingRes, stopLog, wrote, loadResult,
                   loadCalls, loadLog, upIssued, upName, up_output, startVars, stopVars>>

\* finally: self._stop_all_vpn_connections(); the triple is handed back
FinalStop ==
    /\ Tick
    /\ pc = "finally"
    /\ \E o \in StopOutcomes(procs) :
         LET r == StopAll(procs, files, o) IN
         /\ procs' = r.procs
         /\ files' = r.files
         /\ lastStop' = StopRecord(r)
         /\ Note("stopAll", r.raised)
    /\ sinceStop' = 0
    /\ stopLog' = Append(stopLog, "final")
    /\ events' = Append(events, [kind |-> "return",
                                 server |-> vpn_servers[idx].name,
                                 success |-> outcome.success,
                                 err |-> outcome.err])
    /\ pc' = "returned"
    /\ UNCHANGED <<schedRest, launched, tcpdump, retVars, pingRes, wrote,
                   loadResult, loadCalls, loadLog, upIssued, upName, up_output, status_output,
                   statusQueries, statusRc, waited, startVars>>

----------------------------------------------------------------------------
(* run_tests: record, summary; process exit *)

\* The locals of the attempt that has returned are gone.
AttemptFrameGone ==
    /\ launched' = {}
    /\ tcpdump' = "none"
    /\ AttemptHistoryGone

\* self._log_result(server, success, connection_time, error_message), then
\* results.append(...)
LogResult ==
    /\ UNCHANGED conf
    /\ pc = "returned"
    /\ events' = Append(events, [kind |-> "record",
                                 server |-> vpn_servers[idx].name,
                                 success |-> outcome.success,
                                 err |-> outcome.err])
    /\ \E r \in DbOutcomes :
         /\ db' = Persist(db, r)
         /\ IF Swallowed(r)
            THEN /\ results' = Append(results,
                                     [server |-> vpn_servers[idx].name,
                                      success |-> outcome.success,
                                      err |-> outcome.err])
                 /\ idx' = LoopNext(idx)
                 /\ pc' = "loop"
                 /\ exitCode' = exitCode
            ELSE /\ pc' = "cleanup"
                 /\ exitCode' = "nonzero"
                 /\ UNCHANGED <<idx, results>>
    /\ AttemptFrameGone
    /\ lastStop' = StopSeen
    /\ UNCHANGED <<vpn_timeout, cfgVars, signal, health, dbLog, summary,
                   procs, files,
                   sinceStop>>

\* The block _display_summary prints for a result: the server, and the
\* latency of a success or the error of a failure
SummaryLine(r) ==
    [server |-> r.server, success |-> r.success,
     detail |-> IF r.success THEN "connection_time" ELSE r.err]

\* self._display_summary(results); run_tests and main return: exit status 0
Summary ==
    /\ UNCHANGED raised
    /\ UNCHANGED conf
    /\ UNCHANGED elapsed
    /\ pc = "loop"
    /\ idx > Len(vpn_servers)
    /\ summary' = [i \in 1..Len(results) |-> SummaryLine(results[i])]
    /\ exitCode' = "zero"
    /\ pc' = "cleanup"
    /\ UNCHANGED <<cfgVars, signal, health, dbLog, events, idx, results, db,
                   vpn_timeout,
                   hostVars, retVars, attemptRest, startVars, stopVars>>

\* __del__ / _cleanup at interpreter exit: stopAll once more
Cleanup ==
    /\ UNCHANGED raised
    /\ UNCHANGED elapsed
    /\ pc = "cleanup"
    /\ \E o \in StopOutcomes(procs) :
         LET r == StopAll(procs, files, o) IN
         /\ procs' = r.procs
         /\ files' = r.files
         /\ lastStop' = StopRecord(r)
    /\ sinceStop' = 0
    /\ pc' = "exit"
    /\ UNCHANGED <<schedVars, launched, tcpdump, retVars, attemptRest,
                   startVars>>

Next ==
    \/ Construct
    \/ HealthCheck
    \/ Signal
    \/ SigFinalStop
    \/ AttemptBegin
    \/ Ping
    \/ PreStop
    \/ Materialize
    \/ StartBegin
    \/ DirectLaunch
    \/ DirectPoll
    \/ DirectPgrep
    \/ WrapperStart
    \/ WrapperPgrep
    \/ ForceLaunch
    \/ ForcePgrep
    \/ FallbackStart
    \/ FallbackVerify
    \/ LoadPgrep
    \/ LoadReload
    \/ LoadRestart
    \/ LoadVerify
    \/ BringUp
    \/ StatusCheck
    \/ FinalStop
    \/ LogResult
    \/ Summary
    \/ Cleanup

Spec == Init /\ [][Next]_vars

----------------------------------------------------------------------------
(* _parse_vpn_servers on its own *)

\* VPN_SERVERS is any string of at most MaxEntries entries.
InitParse ==
    /\ pc = "parse"
    /\ argv = "none"
    /\ db_config = RequiredDb
    /\ entries \in ParseInputs
    /\ servers_str = ServersString(entries)
    /\ procs = {}
    /\ files = {}
    /\ Fresh

\* self.vpn_servers = self._parse_vpn_servers()
Parse ==
    /\ UNCHANGED raised
    /\ UNCHANGED conf
    /\ UNCHANGED elapsed
    /\ pc = "parse"
    /\ LET parsed == ParseVpnServers(servers_str) IN
       /\ vpn_servers' = parsed.servers
       /\ pc' = IF parsed.raised THEN "parse_error" ELSE "parsed"
    /\ UNCHANGED <<argv, db_config, entries, servers_str, procVars, events,
                   idx, results, db, vpn_timeout, hostVars, retVars,
                   attemptRest, startVars, stopVars>>

NextParse == Parse

SpecParse == InitParse /\ [][NextParse]_vars

----------------------------------------------------------------------------
(* The analysis of the two outputs on its own *)

\* the texts of at most MaxPhrases phrases
Texts == {t \in SUBSET Phrases : Cardinality(t) <= MaxPhrases}

\* status_output holds the stdout of 'ipsec statusall' until it is analysed
InitClassify ==
    /\ pc = "classify"
    /\ argv = "none"
    /\ db_config = RequiredDb
    /\ entries = ServerList
    /\ servers_str = ServersString(entries)
    /\ procs = {}
    /\ files = {}
    /\ vpn_servers = <<>> /\ exitCode = "none" /\ signal = NoSignal
    /\ events = <<>> /\ summary = <<>> /\ health = NoHealth /\ dbLog = <<>>
    /\ idx = 1 /\ results = <<>> /\ db = [rows |-> 0, hb |-> {}]
    /\ conf = [f \in ConfFiles |-> Absent]
    /\ vpn_timeout = DefaultVpnTimeout
    /\ launched = {} /\ tcpdump = "none"
    /\ outcome = NoOutcome /\ nOutcomes = 0
    /\ connection_time = 0 /\ elapsed = 0 /\ raised = {}
    /\ pingRes = "none" /\ stopLog = <<>> /\ wrote = FALSE
    /\ startResult = "none" /\ loadResult = "none" /\ loadCalls = 0
    /\ loadLog = NoLoad /\ upIssued = TRUE /\ upName = UpConnection
    /\ up_output \in Texts
    /\ status_output \in Texts
    /\ statusQueries = 1
    /\ statusRc \in {"zero", "nonzero"}
    /\ waited = SettleDelay
    /\ launches = <<>> /\ launchCtx = <<>> /\ probe = NoProbe
    /\ lastStop = NoStop /\ sinceStop = 0

\* lines 771-807 of _test_vpn_connection
Analyse ==
    /\ UNCHANGED raised
    /\ Tick
    /\ pc = "classify"
    /\ status_output' = StatusText(statusRc, status_output)
    /\ outcome' = Classify(up_output, status_output')
    /\ nOutcomes' = 1
    /\ connection_time' = Sample(elapsed')
    /\ pc' = "classified"
    /\ UNCHANGED <<schedVars, hostVars, pingRes, stopLog, wrote, loadResult,
                   loadCalls, loadLog, upIssued, upName, up_output, statusQueries,
                   statusRc, waited, startVars, stopVars>>

NextClassify == Analyse

SpecClassify == InitClassify /\ [][NextClassify]_vars

----------------------------------------------------------------------------
(* The record operation on its own, on empty tables *)

InitRecord ==
    /\ pc = "record"
    /\ argv = "none"
    /\ db_config = RequiredDb
    /\ entries = ServerList
    /\ servers_str = ServersString(entries)
    /\ procs = {}
    /\ files = {}
    /\ Fresh

\* one call of _log_result
RecordOp ==
    /\ UNCHANGED raised
    /\ UNCHANGED conf
    /\ UNCHANGED elapsed
    /\ pc = "record"
    /\ Len(dbLog) < MaxRecords
    /\ \E r \in DbOutcomes :
         /\ db' = Persist(db, r)
         /\ dbLog' = Append(dbLog, r)
    /\ UNCHANGED <<pc, cfgVars, exitCode, signal, summary, health, events,
                   idx, results, vpn_timeout, hostVars, retVars, attemptRest,
                   startVars, stopVars>>

NextRecord == RecordOp

SpecRecord == InitRecord /\ [][NextRecord]_vars

----------------------------------------------------------------------------
(* Properties *)

AttemptOver == pc \in {"finally", "returned"}

\* the analysis of the two texts was reached: the status query returned
Analysed == AttemptOver /\ statusRc \in {"zero", "nonzero"}

\* C1: every attempt that returns has produced exactly one outcome triple,
\* and on every exit path stopAll runs after the outcome is determined and
\* before control is back in run_tests.
C1_OneOutcomeThenCleanup ==
    /\ nOutcomes <= 1
    /\ pc = "finally" =>
         /\ outcome.set /\ nOutcomes = 1
         /\ \A i \in 1..Len(stopLog) : stopLog[i] # "final"
    /\ pc = "returned" =>
         /\ outcome.set /\ nOutcomes = 1
         /\ stopLog # <<>>
         /\ stopLog[Len(stopLog)] = "final"
         /\ Cardinality({i \in 1..Len(stopLog) : stopLog[i] = "final"}) = 1

\* an attempt ended by a subprocess timeout has returned, cleaned up
C1_Witness ==
    /\ pc = "returned"
    /\ outcome.err = "VPN connection timeout"
    /\ stopLog = <<"pre", "final">>

\* C2: 'ipsec up' is issued only after daemon start returned true and then
\* config load returned true; a false daemon start ends the attempt with
\* the daemon-start diagnostic, config load and bring-up not called; a
\* false config load ends it with the config-load diagnostic, bring-up not
\* called.
C2_BringUpOnlyAfterStartAndLoad ==
    /\ upIssued => startResult = "true" /\ loadResult = "true"
    /\ loadCalls > 0 => startResult = "true"
    /\ startResult = "false" =>
         /\ AttemptOver
         /\ outcome = Ret(FALSE, "Failed to start strongSwan daemon")
         /\ loadCalls = 0 /\ ~upIssued
    /\ loadResult = "false" =>
         /\ AttemptOver
         /\ outcome = Ret(FALSE, "Failed to load IPSec configuration")
         /\ ~upIssued

\* bring-up was issued
C2_Witness == pc = "status" /\ upIssued /\ loadCalls = 1

\* C3 (as claimed): each attempt calls stopAll before it writes the
\* configuration and again after its outcome, and when it returns no daemon
\* it launched is still running.
C3_NoDaemonLeftRunning ==
    /\ wrote => Len(stopLog) >= 1 /\ stopLog[1] = "pre"
    /\ launches # <<>> => Len(stopLog) >= 1 /\ stopLog[1] = "pre"
    /\ pc = "returned" =>
         /\ stopLog[Len(stopLog)] = "final"
         /\ procs \cap launched = {}

C5_PingFailureAborts ==
    pingRes = "failed" =>
        /\ AttemptOver
        /\ outcome = Ret(FALSE, "Cannot reach VPN server")
        /\ startResult = "none" /\ launches = <<>>

\* C5 (amended): a failed ping does not end the attempt: no outcome is
\* "Cannot reach", and the attempt goes on to stopAll and, once the
\* configuration is written, to daemon start.
C5_PingFailureIgnored ==
    /\ outcome.err # "Cannot reach VPN server"
    /\ (pingRes = "failed" /\ pc = "returned") =>
          /\ stopLog[1] = "pre"
          /\ wrote => startResult # "none"

\* the daemon was started and the tunnel brought up after a failed ping
C5_Witness ==
    pingRes = "failed" /\ pc = "returned" /\ startResult = "true" /\ upIssued

\* C6: when the status query after bring-up gives a text with ESTABLISHED,
\* the attempt returns success with no error detail, whatever 'ipsec up'
\* printed.
C6_EstablishedIsSuccess ==
    (Analysed /\ In("ESTABLISHED", status_output)) =>
        outcome = Ret(TRUE, "none")

\* ESTABLISHED in the status text while 'ipsec up' printed an error
C6_Witness ==
    /\ pc = "returned"
    /\ In("ESTABLISHED", status_output)
    /\ InLower("no proposal chosen", up_output)

\* C7 (as claimed): "no proposal chosen" in the bring-up output or in the
\* status text gives the algorithm-mismatch failure.
C7_NoProposalIsMismatch ==
    (Analysed /\ (InLower("no proposal chosen", up_output)
                    \/ InLower("no proposal chosen", status_output))) =>
        outcome = Ret(FALSE, "Encryption algorithm mismatch")

\* C7 (amended): it does so when the status text has no ESTABLISHED.
C7_NoProposalIsMismatchUnlessEstablished ==
    (Analysed /\ ~In("ESTABLISHED", status_output)
              /\ (InLower("no proposal chosen", up_output)
                    \/ InLower("no proposal chosen", status_output))) =>
        outcome = Ret(FALSE, "Encryption algorithm mismatch")

\* the mismatch found in upper case in the bring-up output
C7_Witness ==
    /\ pc = "returned"
    /\ up_output = {"NO PROPOSAL CHOSEN"}
    /\ outcome.err = "Encryption algorithm mismatch"

\* C8 (as claimed): the status is queried at a fixed interval until a query
\* reports ESTABLISHED or VPN_TIMEOUT has elapsed, and not beyond.
C8_PollsUntilEstablishedOrTimeout ==
    /\ waited <= vpn_timeout + SettleDelay
    /\ (Analysed /\ ~In("ESTABLISHED", status_output)) =>
          waited >= vpn_timeout

\* C9 (as claimed): daemon start returns true only if, after its last
\* launch, pgrep charon and 'ipsec status' both succeeded.
C9_StartTrueOnlyIfBothChecks ==
    startResult = "true" => probe.pgrep = "ok" /\ probe.status = "ok"

ProbeFailed(pr) ==
    pr.poll = "fail" \/ pr.pgrep = "fail" \/ pr.status = "fail"

\* C10: the launch strategies are used in the order direct, wrapper,
\* force; a later one only after the liveness check of the one before it
\* failed, none after a successful check.
C10_LaunchOrder ==
    /\ launches \in {<<>>, <<"direct">>, <<"wrapper">>,
                     <<"direct", "wrapper">>,
                     <<"direct", "wrapper", "force">>}
    /\ \A i \in 2..Len(launches) :
          /\ ProbeFailed(launchCtx[i])
          /\ launchCtx[i].pgrep # "ok" /\ launchCtx[i].status # "ok"

\* all three strategies were used
C10_Witness == launches = <<"direct", "wrapper", "force">>

----------------------------------------------------------------------------
(* Configuration load, scheduler, persistence, process modes, parsing *)

\* C11: _load_ipsec_config returns true only if a status or list-connections
\* query made after the reload (or after the restart that replaces a failed
\* reload) showed the policy; the restart is run only after a reload that
\* exited non-zero; when pgrep finds no charon it returns false and no reload
\* is issued.
C11_LoadTrueOnlyIfPolicyShown ==
    /\ (pc = "bring_up" /\ loadResult = "true") =>
          /\ loadLog.shown
          /\ loadLog.pgrep = "ok"
    /\ loadLog.shown => loadLog.reload \in {"zero", "nonzero"}
    /\ (loadLog.shown /\ loadLog.reload = "nonzero") => loadLog.restart
    /\ loadLog.restart => loadLog.reload = "nonzero"
    /\ loadLog.pgrep = "fail" =>
          /\ loadResult = "false"
          /\ loadLog.reload = "none" /\ ~loadLog.restart /\ ~loadLog.shown

\* the load returned true after the restart
C11_Witness ==
    pc = "bring_up" /\ loadResult = "true" /\ loadLog.restart /\ loadLog.shown

\* the outcomes handed to results so far, as the summary lists them
Listed == [i \in 1..Len(results) |-> SummaryLine(results[i])]

\* the pass has run to its end
PassDone == pc \in {"cleanup", "exit"} /\ events # <<>> /\ ~signal.got

\* C12: run_tests goes through the servers in list order; for each it makes
\* one attempt and then one record call with the outcome of that attempt,
\* before the next server; a failed outcome does not keep the remaining
\* servers from being attempted; the summary has one entry per server, in
\* the same order.
C12_OneAttemptOneRecordInOrder ==
    /\ \A k \in 1..Len(events) :
          /\ events[k].kind = <<"attempt", "return", "record">>[((k - 1) % 3) + 1]
          /\ events[k].server = vpn_servers[((k - 1) \div 3) + 1].name
          /\ events[k].kind = "record" =>
                /\ events[k].success = events[k - 1].success
                /\ events[k].err = events[k - 1].err
                /\ results[k \div 3].server = events[k].server
                /\ results[k \div 3].success = events[k].success
                /\ results[k \div 3].err = events[k].err
    /\ Len(results) = Len(events) \div 3
    /\ PassDone =>
          /\ Len(events) = 3 * Len(vpn_servers)
          /\ Len(summary) = Len(vpn_servers)
          /\ \A i \in 1..Len(summary) :
                /\ summary[i].server = vpn_servers[i].name
                /\ summary[i] = Listed[i]

\* a pass whose first attempt failed and whose second succeeded
C12_Witness ==
    /\ pc = "exit" /\ Len(summary) >= 2
    /\ ~summary[1].success /\ summary[2].success

\* C13: a failure to persist (connect, insert, upsert, commit) stays inside
\* _log_result: run_tests goes on to the remaining servers and ends as it
\* does when every record is persisted.
C13_PersistFailureSwallowed ==
    /\ db.rows <= Len(results)
    /\ PassDone =>
          /\ exitCode = "zero"
          /\ Len(results) = Len(vpn_servers)
          /\ Len(summary) = Len(vpn_servers)

\* a pass in which no record was persisted
C13_Witness ==
    PassDone /\ pc = "exit" /\ db.rows = 0 /\ Len(results) >= 2

\* C14: there is at most one heartbeat row for the host; every record that
\* is persisted, of a success or of a failure, creates it with count 1 or
\* adds 1 to its count, so that the count is the number of persisted
\* records.
C14_HeartbeatCountsRecords ==
    /\ Cardinality({r \in db.hb : r.host = Host}) <= 1
    /\ \A r \in db.hb : r.host = Host /\ r.total_tests_run = db.rows
    /\ db.hb = {} <=> db.rows = 0

\* a success and a failure were both persisted
C14_Witness ==
    /\ db.rows = 2
    /\ \E r \in db.hb : r.total_tests_run = 2
    /\ Len(results) >= 2 /\ results[1].success /\ ~results[2].success

\* C15 (as claimed): started without --health-check and without
\* --single-run, the process goes from pass to pass and ends only on a stop
\* signal.
C15_ContinuousUntilSignal ==
    (argv = "none" /\ events # <<>> /\ pc = "exit") => signal.got

\* C16 (as claimed): a stop signal that arrives during an attempt does not
\* interrupt it: the outcome of that attempt is recorded before the process
\* ends.
C16_SignalWaitsForAttempt ==
    (signal.inFlight > 0 /\ pc = "exit") =>
        /\ Len(results) >= signal.inFlight
        /\ \E k \in 1..Len(events) :
              /\ events[k].kind = "record"
              /\ events[k].server = vpn_servers[signal.inFlight].name

\* C17 (as claimed): with --single-run the exit status is 0 when at least
\* one attempt of the pass succeeded and non-zero when all failed.
C17_SingleRunExitStatus ==
    (argv = "--single-run" /\ PassDone /\ pc = "exit") =>
        (exitCode = "zero" <=> \E i \in 1..Len(results) : results[i].success)

\* C18: when a required database setting is missing, or the server list
\* parses to the empty list, the process exits non-zero and no attempt and
\* no record call is ever started.
C18_InvalidConfigExitsBeforeAnyAttempt ==
    (RequiredDb \ db_config # {} \/ (pc # "main" /\ vpn_servers = <<>>)) =>
        /\ pc \in {"main", "cleanup", "exit"}
        /\ pc # "main" => exitCode = "nonzero"
        /\ events = <<>> /\ results = <<>> /\ db.rows = 0

\* every entry of VPN_SERVERS was rejected and the process has exited
C18_Witness ==
    /\ pc = "exit" /\ exitCode = "nonzero"
    /\ servers_str # <<>> /\ vpn_servers = <<>>
    /\ RequiredDb \ db_config = {}

FiveFields(e) == Len(e.fields) = 5

\* the target an entry of five fields stands for
Target(e) ==
    [name |-> e.fields[1], ip |-> e.fields[2], username |-> e.fields[3],
     password |-> e.fields[4], shared_key |-> e.fields[5]]

\* C19: an entry with fewer than five fields is skipped; an entry with
\* exactly five gives a target with name, address, username, password and
\* PSK in that order; the targets are in the order of their entries; an
\* entry that is skipped does not end the parsing.
C19_ParseKeepsFiveFieldEntries ==
    pc = "parsed" =>
        LET valid == SelectSeq(entries, FiveFields) IN
        /\ Len(vpn_servers) = Len(valid)
        /\ \A i \in 1..Len(valid) : vpn_servers[i] = Target(valid[i])

\* a skipped entry between two targets
C19_Witness ==
    /\ pc = "parsed" /\ Len(entries) = 3 /\ Len(vpn_servers) = 2
    /\ Len(entries[2].fields) < 5

\* an entry name:address
Bare(e) == Len(e.fields) = 2

\* C20 (as claimed): an entry name:address is accepted as a target without
\* credentials and is in the list of servers to attempt.
C20_TwoFieldEntryAccepted ==
    pc = "parsed" =>
        \A i \in 1..Len(entries) :
            Bare(entries[i]) =>
                \E j \in 1..Len(vpn_servers) :
                    /\ vpn_servers[j].name = entries[i].fields[1]
                    /\ vpn_servers[j].ip = entries[i].fields[2]

\* C20 (amended): an entry name:address is skipped: no target has its name.
C20_TwoFieldEntrySkipped ==
    pc = "parsed" =>
        \A i \in 1..Len(entries) :
            Bare(entries[i]) =>
                \A j \in 1..Len(vpn_servers) :
                    vpn_servers[j].name # entries[i].fields[1]

\* an entry name:address next to an entry that became a target
C20_Witness ==
    /\ pc = "parsed" /\ Len(entries) = 2
    /\ Bare(entries[1]) /\ Len(vpn_servers) = 1

----------------------------------------------------------------------------
(* Child processes, success, daemon start *)

\* C22 (as claimed): when an attempt returns, every process it spawned has
\* ended and has been waited for: neither the packet capture nor a daemon
\* it launched is running or left unreaped.
C22_ChildrenReaped ==
    pc = "returned" =>
        /\ tcpdump \in {"none", "reaped"}
        /\ procs \cap launched = {}

\* C27 (as claimed): an attempt returns success only if the status query
\* after bring-up reported ESTABLISHED.
C27_SuccessOnlyIfEstablished ==
    (AttemptOver /\ outcome.success) =>
        /\ statusRc = "zero"
        /\ In("ESTABLISHED", status_output)

\* C30: when the directly launched charon is alive after the settle delay,
\* the one pgrep check decides the result of daemon start and no other
\* strategy is launched; when 'ipsec start' of the second strategy does not
\* exit 0, daemon start returns false and the force start is not tried.
C30_DirectAndWrapperAreFinal ==
    /\ probe.poll = "ok" =>
          /\ launches = <<"direct">>
          /\ probe.status = "none"
          /\ probe.pgrep = "ok" => startResult = "true"
          /\ probe.pgrep = "fail" => startResult = "false"
    /\ (launches = <<"direct", "wrapper">> /\ probe = NoProbe
          /\ pc # "wrapper_pgrep") => startResult = "false"
    /\ \A i \in 1..Len(launches) :
          launches[i] = "force" => launchCtx[i].pgrep = "fail"

\* the direct launch was alive and its pgrep check failed
C30_Witness ==
    /\ launches = <<"direct">> /\ probe.poll = "ok" /\ probe.pgrep = "fail"
    /\ startResult = "false" /\ pc = "finally"

----------------------------------------------------------------------------
(* Exceptions inside an attempt, health check *)

C24_HealthCheckExitStatus ==
    (argv = "--health-check" /\ pc \in {"cleanup", "exit"} /\ ~signal.got
       /\ health.db # "none") =>
        /\ exitCode = "zero" <=>
              (health.db = "ok" /\ health.ipsec = "zero"
                 /\ health.xl = "zero")
        /\ events = <<>> /\ results = <<>> /\ db.rows = 0

----------------------------------------------------------------------------
(* Record operations *)

\* the count of the heartbeat row, 0 without a row
HeartbeatTotal ==
    IF db.hb = {} THEN 0 ELSE (CHOOSE r \in db.hb : TRUE).total_tests_run

\* the record operations that reached the end of commit
Committed == {i \in 1..Len(dbLog) : dbLog[i] = "ok"}

\* C29: the insert of the result row and the upsert of the heartbeat row of
\* one record operation are committed together or not at all: after any
\* sequence of record operations on empty tables, failing ones included,
\* the number of result rows and the heartbeat count both equal the number
\* of operations that committed.
C29_InsertAndUpsertTogether ==
    /\ db.rows = Cardinality(Committed)
    /\ HeartbeatTotal = Cardinality(Committed)
    /\ Cardinality(db.hb) <= 1

\* an operation failed between its insert and its commit, between two that
\* committed
C29_Witness ==
    /\ dbLog = <<"ok", "upsert", "ok">>
    /\ db.rows = 2 /\ HeartbeatTotal = 2

----------------------------------------------------------------------------
(* Classification *)

\* C26: the outcome of the analysis is the result of the first rule that
\* matches, in the order: ESTABLISHED in the status text (success); "no
\* proposal chosen" in either text (mismatch); "authentication failed" in
\* either text (shared key); "timeout" or "retransmit" in the bring-up
\* output (peer not responding); ISAKMP SA established in the bring-up
\* output with "expired" in either text (SA expired); ISAKMP SA established
\* without it (success); otherwise a generic failure that quotes nothing
\* but the first 200 characters of the bring-up output.  The status text of
\* a status command that exited non-zero matches no rule.
C26_FirstMatchingRule ==
    pc = "classified" =>
        LET up == up_output
            st == status_output
            either(p) == InLower(p, up) \/ InLower(p, st)
            isakmp == In("ISAKMP SA established", up)
                        \/ In("STATE_MAIN_R3", up)
            rules == <<
              [m |-> In("ESTABLISHED", st), s |-> TRUE, e |-> "none"],
              [m |-> either("no proposal chosen"), s |-> FALSE,
               e |-> "Encryption algorithm mismatch"],
              [m |-> either("authentication failed"), s |-> FALSE,
               e |-> "Authentication failed"],
              [m |-> InLower("timeout", up) \/ InLower("retransmit", up),
               s |-> FALSE, e |-> "Server not responding to handshake"],
              [m |-> isakmp /\ either("expired"), s |-> FALSE,
               e |-> "IPSec SA established but immediately expired"],
              [m |-> isakmp /\ ~either("expired"), s |-> TRUE, e |-> "none"],
              [m |-> TRUE, s |-> FALSE, e |-> "Connection failed"] >>
            first == CHOOSE i \in 1..Len(rules) :
                        rules[i].m /\ \A j \in 1..(i - 1) : ~rules[j].m
        IN  /\ outcome.set
            /\ outcome.success = rules[first].s
            /\ outcome.err = rules[first].e
            /\ first = 7 =>
                  /\ outcome.detail \subseteq up
                  /\ "past 200 characters" \notin outcome.detail
            /\ first # 7 => outcome.detail = {}
            /\ statusRc = "nonzero" =>
                  /\ first # 1
                  /\ \A p \in {"no proposal chosen", "authentication failed",
                                "expired"} : ~InLower(p, st)

\* both the mismatch and the shared-key pattern are there: the mismatch rule
\* comes first
C26_Witness ==
    /\ pc = "classified"
    /\ up_output = {"authentication failed", "NO PROPOSAL CHOSEN"}
    /\ status_output = {"No status available"} /\ statusRc = "nonzero"
    /\ outcome.err = "Encryption algorithm mismatch"

----------------------------------------------------------------------------
(* Latency *)

\* C25: on every return path the latency of the triple is the time from
\* entry to the end of the last step the attempt executed: it is taken
\* before the final stopAll begins, so the time of that call is not in it,
\* and it is never a value that does not depend on the steps executed.
C25_LatencyUpToCleanup ==
    /\ pc = "finally" =>
          /\ elapsed >= 1
          /\ connection_time = elapsed * 1000
    /\ pc = "returned" =>
          /\ elapsed >= 2
          /\ connection_time = (elapsed - 1) * 1000
    /\ (pc \in AttemptPcs /\ ~outcome.set) => connection_time = 0

\* a failure of daemon start after the three launch strategies: eleven
\* steps have run when the latency is taken, the final stopAll is the twelfth
C25_Witness ==
    /\ pc = "returned" /\ startResult = "false" /\ Len(launches) = 3
    /\ connection_time = 11000 /\ elapsed = 12

----------------------------------------------------------------------------
(* Configuration files on disk *)

\* the files whose text has the pre-shared key or the password in it
SecretFiles ==
    {f \in ConfFiles : conf[f].content.shared_key # <<>>
                         \/ conf[f].content.password # <<>>}

\* C21 (as claimed): after the configuration of a server is materialized,
\* every written file with a secret in it has mode 0600.
C21_SecretFilesOwnerOnly ==
    wrote => \A f \in SecretFiles : conf[f].mode = "0600"

\* C28: from the materialization for server S, through the bring-up, to the
\* end of the final cleanup of the attempt, the five files on disk hold the
\* address, pre-shared key, username and password of S, written in this
\* attempt, and no value of another server.
C28_FilesOfTheServerUnderTest ==
    (wrote /\ pc \in AttemptPcs \cup {"finally", "returned"}) =>
        LET S == vpn_servers[idx]
            at(f) == conf[f].content
        IN  /\ at("/etc/ipsec.conf").ip = S.ip
            /\ at("/etc/ipsec.secrets").ip = S.ip
            /\ at("/etc/ipsec.secrets").shared_key = S.shared_key
            /\ at("/etc/xl2tpd/xl2tpd.conf").ip = S.ip
            /\ at("/etc/xl2tpd/xl2tpd.conf").username = S.username
            /\ at("/etc/ppp/options.l2tpd").username = S.username
            /\ at("/etc/ppp/options.l2tpd").password = S.password
            /\ at("/etc/ppp/chap-secrets").username = S.username
            /\ at("/etc/ppp/chap-secrets").password = S.password
            /\ \A f \in ConfFiles :
                  /\ conf[f].mode # "absent"
                  /\ \A j \in 1..Len(vpn_servers) :
                        j # idx =>
                          /\ at(f).ip # vpn_servers[j].ip
                          /\ at(f).shared_key # vpn_servers[j].shared_key
                          /\ at(f).username # vpn_servers[j].username
                          /\ at(f).password # vpn_servers[j].password

\* the bring-up for the second server has been issued, after an attempt on
\* the first one that wrote its files
C28_Witness ==
    /\ pc = "status" /\ upIssued /\ idx = 2 /\ wrote
    /\ Len(results) = 1 /\ results[1].err # "exception text"
    /\ conf["/etc/ppp/chap-secrets"].content.password = vpn_servers[2].password

----------------------------------------------------------------------------
(* Signals and cleanup *)

\* C31: when a stop signal has ended an attempt that had not reached its
\* final cleanup, stopAll has been run after the signal, as the last
\* operation on the daemons, by the time the attempt is left, and so before
\* the process ends.
C31_SignalledAttemptStillStops ==
    (signal.inFlight > 0 /\ pc \in {"cleanup", "exit"}) =>
        /\ signal.stopped
        /\ lastStop.valid
        /\ sinceStop = 0

\* the signal came after the attempt had launched charon
C31_Witness ==
    /\ signal.inFlight = 1 /\ pc = "cleanup" /\ signal.stopped
    /\ "charon" \in launched

C33_SameConnectionName ==
    (upIssued /\ pc = "returned") =>
        /\ conf["/etc/ipsec.conf"].content.conn = upName
        /\ lastStop.valid /\ lastStop.down = upName

====
